---------------------------- MODULE Spec2Model ----------------------------
(***************************************************************************)
(* Model of the employee HTTP service of src/main.go: four fiber handlers  *)
(* (GET, POST, PUT, DELETE) over one MongoDB collection "employees".       *)
(*                                                                         *)
(* Every store call of the driver is one atomic step of the store.  The    *)
(* PUT and DELETE handlers issue one store call each, and GET reads the    *)
(* collection once (Find; cursor.All then drains that cursor, the          *)
(* collections followed here fit its first batch), so each of them is one  *)
(* action: the work before and after the call is local to the request.     *)
(* The POST handler issues two store calls (InsertOne, then FindOne), so   *)
(* it is two actions, and other requests may run between them.             *)
(*                                                                         *)
(* Any store call may fail (store unreachable, request cancelled).         *)
(*                                                                         *)
(* An ObjectID is scaled down from 12 bytes to one byte; its text form is  *)
(* HexLen hexadecimal characters, of either case when parsed and in lower  *)
(* case when produced.  The driver's generator is a counter.               *)
(***************************************************************************)
EXTENDS Integers, Sequences, FiniteSets, TLC

\* ------------------------------------------------------------------ bounds
MaxInFlight == 2     \* POST handlers that are between their two store calls
MaxCreates == 2      \* insertions the model follows
FirstOid   == 10     \* value of the ObjectID generator's counter at start-up

\* ------------------------------------------------- ObjectID and its text
LowerDigits ==
    <<"0","1","2","3","4","5","6","7","8","9","a","b","c","d","e","f">>
UpperDigits ==
    <<"0","1","2","3","4","5","6","7","8","9","A","B","C","D","E","F">>

HexLen == 2     \* characters of an ObjectID's text form (scaled down)

IsHexChar(c) == \E i \in 1 .. 16 : LowerDigits[i] = c \/ UpperDigits[i] = c

HexVal(c) == (CHOOSE i \in 1 .. 16 : LowerDigits[i] = c \/ UpperDigits[i] = c) - 1

\* primitive.ObjectID.Hex(): the lower-case hexadecimal text of the bytes.
Hex(oid) == << LowerDigits[((oid \div 16) % 16) + 1], LowerDigits[(oid % 16) + 1] >>

\* The same bytes written with upper-case digits (a text a client may send).
UpperHex(oid) == << UpperDigits[((oid \div 16) % 16) + 1], UpperDigits[(oid % 16) + 1] >>

\* A parser that forgets the length check and reads the last digit only.
ObjectIDFromHexNoLength(s) ==
    IF s # <<>> /\ \A i \in 1 .. Len(s) : IsHexChar(s[i])
    THEN [ok |-> TRUE, oid |-> HexVal(s[Len(s)])]
    ELSE [ok |-> FALSE, oid |-> 0]

\* primitive.ObjectIDFromHex: the text must have the exact length and only
\* hexadecimal digits, of either case.
ObjectIDFromHex(s) ==
    IF Len(s) = HexLen /\ \A i \in 1 .. Len(s) : IsHexChar(s[i])
    THEN [ok |-> TRUE, oid |-> 16 * HexVal(s[1]) + HexVal(s[2])]
    ELSE [ok |-> FALSE, oid |-> 0]

\* ------------------------------------------------------ the Employee type
Employee(id, name, salary, age) ==
    [ID |-> id, Name |-> name, Salary |-> salary, Age |-> age]

\* new(Employee): the zero value.
ZeroEmployee == Employee(<<>>, "", 0, 0)

\* json.Marshal of an Employee: "id" is omitted when empty.
ToJSON(e) ==
    IF e.ID = <<>>
    THEN [name |-> e.Name, salary |-> e.Salary, age |-> e.Age]
    ELSE [id |-> e.ID, name |-> e.Name, salary |-> e.Salary, age |-> e.Age]

JSONList(es) == [i \in 1 .. Len(es) |-> ToJSON(es[i])]

\* The identifier a JSON record carries, <<>> when it carries none.
IdOf(j) == IF "id" \in DOMAIN j THEN j.id ELSE <<>>

\* A body parser that accepts anything and leaves the zero value on garbage.
BodyParserLenient(body) ==
    IF body.wellFormed
    THEN [ok |-> TRUE, employee |-> Employee(body.id, body.name, body.salary, body.age)]
    ELSE [ok |-> TRUE, employee |-> ZeroEmployee]

\* c.BodyParser(employee): fills the struct from the JSON body, or fails.
BodyParser(body) ==
    IF body.wellFormed
    THEN [ok |-> TRUE, employee |-> Employee(body.id, body.name, body.salary, body.age)]
    ELSE [ok |-> FALSE, employee |-> ZeroEmployee]

\* ---------------------------------------------------------- the requests
BadBody == [wellFormed |-> FALSE, id |-> <<>>, name |-> "", salary |-> 0, age |-> 0]

GoodBody(id, name, salary, age) ==
    [wellFormed |-> TRUE, id |-> id, name |-> name, salary |-> salary, age |-> age]

\* Identifiers a client puts in a body: none, or the text of an ObjectID.
ClientIds == { <<>>, Hex(FirstOid) }

Bodies ==
    {BadBody} \cup
    UNION { { GoodBody(id, "Ann", 1000, 30), GoodBody(id, "Bo", 2000, 41) } : id \in ClientIds }

PathOids == FirstOid .. (FirstOid + MaxCreates - 1)

\* Path parameters: ObjectID texts in both cases, a text with a character
\* that is no digit, and a text of the wrong length.
PathIds ==
    { Hex(o) : o \in PathOids } \cup { UpperHex(o) : o \in PathOids }
        \cup { <<"0", "g">>, <<"0">> }

\* ------------------------------------------------------------- the store
VARIABLES
    collection,   \* the documents of "employees", in natural order
    nextOid,      \* the ObjectID the driver generates next
    inflight,     \* the POST handlers between InsertOne and FindOne, each
                  \* with its variables
    response,     \* the request just handled and its response, until sent
    created,      \* identifiers that 201 responses have carried so far
    deleted       \* ObjectIDs whose DELETE was answered 200 so far

vars == <<collection, nextOid, inflight, response, created, deleted>>

OidKey(oid) == [t |-> "oid", v |-> oid]
StrKey(s) == [t |-> "str", v |-> s]

Matches(coll, key) == { i \in 1 .. Len(coll) : coll[i]._id = key }

\* A decoding that takes the salary for the age and the age for the salary.
DecodeSwapped(doc) ==
    [ID |-> IF doc._id.t = "oid" THEN Hex(doc._id.v) ELSE doc._id.v,
     Name |-> doc.name, Salary |-> doc.age, Age |-> doc.salary]

\* Decoding a document into an Employee: an ObjectID _id becomes its Hex().
Decode(doc) ==
    Employee(IF doc._id.t = "oid" THEN Hex(doc._id.v) ELSE doc._id.v,
             doc.name, doc.salary, doc.age)

DecodeAll(coll) == [i \in 1 .. Len(coll) |-> Decode(coll[i])]

\* collection.InsertOne: the Employee is marshalled with "_id" omitted when
\* ID is empty, and the driver then adds a freshly generated ObjectID.
\* A key that is already in the collection is refused (duplicate key).
InsertOne(coll, next, e) ==
    LET key == IF e.ID = <<>> THEN OidKey(next) ELSE StrKey(e.ID)
        used == IF e.ID = <<>> THEN (next + 1) % 256 ELSE next
    IN  IF Matches(coll, key) # {}
        THEN [err |-> "error", coll |-> coll, next |-> used, InsertedID |-> key]
        ELSE [err |-> "nil",
              coll |-> Append(coll, [_id |-> key, name |-> e.Name,
                                     salary |-> e.Salary, age |-> e.Age]),
              next |-> used,
              InsertedID |-> key]

\* collection.FindOne(filter).Decode(createdEmployee) into a fresh record:
\* without a match Decode returns ErrNoDocuments and leaves the record as is.
FindOneDecode(coll, key) ==
    IF Matches(coll, key) = {}
    THEN [err |-> "ErrNoDocuments", employee |-> ZeroEmployee]
    ELSE [err |-> "nil",
          employee |-> Decode(coll[CHOOSE i \in Matches(coll, key) :
                                      \A j \in Matches(coll, key) : i <= j])]


\* An update whose $set leaves the salary out.
FindOneAndUpdateNoSalary(coll, key, e) ==
    IF Matches(coll, key) = {}
    THEN [err |-> "ErrNoDocuments", coll |-> coll]
    ELSE LET i == CHOOSE i \in Matches(coll, key) : \A j \in Matches(coll, key) : i <= j
         IN  [err |-> "nil",
              coll |-> [coll EXCEPT ![i] = [@ EXCEPT !.name = e.Name, !.age = e.Age]]]

\* An update with the upsert option: without a match it inserts the document.
FindOneAndUpdateUpsert(coll, key, e) ==
    IF Matches(coll, key) = {}
    THEN [err |-> "nil",
          coll |-> Append(coll, [_id |-> key, name |-> e.Name,
                                 salary |-> e.Salary, age |-> e.Age])]
    ELSE LET i == CHOOSE i \in Matches(coll, key) : \A j \in Matches(coll, key) : i <= j
         IN  [err |-> "nil",
              coll |-> [coll EXCEPT ![i] = [@ EXCEPT !.name = e.Name,
                                                     !.age = e.Age,
                                                     !.salary = e.Salary]]]

\* An update that, once some document matches, sets the fields of every
\* document (an update-many with a filter that is dropped).
FindOneAndUpdateEvery(coll, key, e) ==
    IF Matches(coll, key) = {}
    THEN [err |-> "ErrNoDocuments", coll |-> coll]
    ELSE [err |-> "nil",
          coll |-> [i \in 1 .. Len(coll) |->
                       [coll[i] EXCEPT !.name = e.Name, !.age = e.Age,
                                       !.salary = e.Salary]]]

\* collection.FindOneAndUpdate(query, {$set: {name, age, salary}}): updates
\* the first document matching the key; ErrNoDocuments when none matches.
FindOneAndUpdate(coll, key, e) ==
    IF Matches(coll, key) = {}
    THEN [err |-> "ErrNoDocuments", coll |-> coll]
    ELSE LET i == CHOOSE i \in Matches(coll, key) : \A j \in Matches(coll, key) : i <= j
         IN  [err |-> "nil",
              coll |-> [coll EXCEPT ![i] = [@ EXCEPT !.name = e.Name,
                                                     !.age = e.Age,
                                                     !.salary = e.Salary]]]

\* collection.DeleteOne(query): removes the first document matching the key.
DeleteOne(coll, key) ==
    IF Matches(coll, key) = {}
    THEN [DeletedCount |-> 0, coll |-> coll]
    ELSE LET i == CHOOSE i \in Matches(coll, key) : \A j \in Matches(coll, key) : i <= j
         IN  [DeletedCount |-> 1,
              coll |-> SubSeq(coll, 1, i - 1) \o SubSeq(coll, i + 1, Len(coll))]

\* ---------------------------------------------------------- the response
NoBody == [kind |-> "none", val |-> <<>>]

\* A fresh fiber response: status 200, nothing written.
NewResp == [status |-> 200, body |-> NoBody, writes |-> <<>>]

Status(r, code) == [r EXCEPT !.status = code]

SendString(r, s) ==
    [r EXCEPT !.body = [kind |-> "text", val |-> s], !.writes = Append(@, "SendString")]

JSON(r, v) ==
    [r EXCEPT !.body = [kind |-> "json", val |-> v], !.writes = Append(@, "JSON")]

\* c.SendStatus(code): sets the status; the body is only the status message.
SendStatus(r, code) ==
    [r EXCEPT !.status = code,
              !.body = IF @.kind = "none" THEN [kind |-> "status", val |-> <<>>] ELSE @]

Call(op, err) == [op |-> op, err |-> err]

Done(resp, coll, calls) == [resp |-> resp, coll |-> coll, calls |-> calls]

\* ---------------------------------------------------------- the handlers
\* GET /employee.  findOK: collection.Find succeeds.  allOK: cursor.All
\* succeeds; when it fails, n records had been materialized.
GetHandler(coll, findOK, allOK, n) ==
    IF ~findOK
    THEN Done(SendString(Status(NewResp, 500), "store error"), coll,
              <<Call("Find", "error")>>)
    ELSE LET employees == IF allOK THEN DecodeAll(coll)
                          ELSE SubSeq(DecodeAll(coll), 1, n)
             r == IF allOK THEN NewResp
                  ELSE SendString(Status(NewResp, 500), "cursor error")
         IN  Done(JSON(r, JSONList(employees)), coll,
                  <<Call("Find", "nil"), Call("All", IF allOK THEN "nil" ELSE "error")>>)

\* PUT /employee/:id.  storeOK: the store serves FindOneAndUpdate.
PutHandler(coll, idParam, body, storeOK) ==
    LET id == ObjectIDFromHex(idParam)
        p == BodyParser(body)
        u == IF storeOK THEN FindOneAndUpdate(coll, OidKey(id.oid), p.employee)
             ELSE [err |-> "error", coll |-> coll]
    IN  IF ~id.ok THEN Done(SendStatus(NewResp, 400), coll, <<>>)
        ELSE IF ~p.ok
        THEN Done(SendString(Status(NewResp, 400), "parse error"), coll, <<>>)
        ELSE IF u.err = "ErrNoDocuments"
        THEN Done(SendStatus(NewResp, 400), u.coll, <<Call("FindOneAndUpdate", u.err)>>)
        ELSE IF u.err # "nil"
        THEN Done(SendStatus(NewResp, 500), u.coll, <<Call("FindOneAndUpdate", u.err)>>)
        ELSE Done(JSON(Status(NewResp, 200), ToJSON([p.employee EXCEPT !.ID = idParam])),
                  u.coll, <<Call("FindOneAndUpdate", u.err)>>)

\* A DELETE handler that does not look at DeletedCount.
DeleteHandlerNoCount(coll, idParam, storeOK) ==
    LET id == ObjectIDFromHex(idParam)
        d == DeleteOne(coll, OidKey(id.oid))
    IN  IF ~id.ok
        THEN Done(SendString(Status(NewResp, 400), "hex error"), coll, <<>>)
        ELSE IF ~storeOK
        THEN Done(SendStatus(NewResp, 500), coll, <<Call("DeleteOne", "error")>>)
        ELSE Done(JSON(Status(NewResp, 200), "record deleted..."), d.coll,
                  <<Call("DeleteOne", "nil")>>)

\* DELETE /employee/:id.  storeOK: the store serves DeleteOne.
DeleteHandler(coll, idParam, storeOK) ==
    LET id == ObjectIDFromHex(idParam)
        d == DeleteOne(coll, OidKey(id.oid))
    IN  IF ~id.ok
        THEN Done(SendString(Status(NewResp, 400), "hex error"), coll, <<>>)
        ELSE IF ~storeOK
        THEN Done(SendStatus(NewResp, 500), coll, <<Call("DeleteOne", "error")>>)
        ELSE IF d.DeletedCount < 1
        THEN Done(SendStatus(NewResp, 404), d.coll, <<Call("DeleteOne", "nil")>>)
        ELSE Done(JSON(Status(NewResp, 200), "record deleted..."), d.coll,
                  <<Call("DeleteOne", "nil")>>)

\* POST /employee up to InsertOne.  storeOK: the store serves InsertOne.
\* returned: the handler has returned; otherwise it goes on to FindOne.
PostHandler(coll, next, body, storeOK) ==
    LET p == BodyParser(body)
        employee == [p.employee EXCEPT !.ID = <<>>]
        ins == InsertOne(coll, next, employee)
    IN  IF ~p.ok
        THEN [returned |-> TRUE, resp |-> SendString(Status(NewResp, 400), "parse error"),
              coll |-> coll, next |-> next, InsertedID |-> OidKey(0), calls |-> <<>>]
        ELSE IF ~storeOK \/ ins.err # "nil"
        THEN [returned |-> TRUE, resp |-> SendString(Status(NewResp, 500), "store error"),
              coll |-> coll, next |-> IF storeOK THEN ins.next ELSE next,
              InsertedID |-> OidKey(0),
              calls |-> <<Call("InsertOne", "error")>>]
        ELSE [returned |-> FALSE, resp |-> NewResp,
              coll |-> ins.coll, next |-> ins.next, InsertedID |-> ins.InsertedID,
              calls |-> <<Call("InsertOne", "nil")>>]

\* POST /employee from FindOne on.  storeOK: the store serves FindOne.  The
\* error of Decode is not looked at: the record stays the zero value.
PostRefetch(coll, insertedID, calls, storeOK) ==
    LET f == IF storeOK THEN FindOneDecode(coll, insertedID)
             ELSE [err |-> "error", employee |-> ZeroEmployee]
    IN  Done(JSON(Status(NewResp, 201), ToJSON(f.employee)), coll,
             Append(calls, Call("FindOne", f.err)))

\* ------------------------------------------------------------ the system
Completed(method, idParam, body, h) ==
    [method |-> method, idParam |-> idParam, body |-> body,
     resp |-> h.resp, calls |-> h.calls]

NoResponse == Completed("none", <<>>, BadBody, Done(NewResp, <<>>, <<>>))

Init ==
    /\ collection = <<>>
    /\ nextOid = FirstOid
    /\ inflight = {}
    /\ response = NoResponse
    /\ created = {}
    /\ deleted = {}

\* Outcomes of the two store interactions of GET: Find fails; both succeed;
\* Find succeeds and All fails after n records.
GetOutcomes(coll) ==
    { <<FALSE, FALSE, 0>>, <<TRUE, TRUE, 0>> }
        \cup { <<TRUE, FALSE, n>> : n \in 0 .. Len(coll) }

Get ==
    /\ response.method = "none"
    /\ \E o \in GetOutcomes(collection) :
         response' = Completed("GET", <<>>, BadBody,
                               GetHandler(collection, o[1], o[2], o[3]))
    /\ UNCHANGED <<collection, nextOid, inflight, created, deleted>>

Post(body) ==
    /\ response.method = "none"
    /\ \E storeOK \in BOOLEAN :
         LET h == PostHandler(collection, nextOid, body, storeOK)
         IN  IF h.returned
             THEN /\ response' = Completed("POST", <<>>, body, h)
                  /\ nextOid' = h.next
                  /\ UNCHANGED <<collection, inflight>>
             ELSE /\ nextOid < FirstOid + MaxCreates
                  /\ Cardinality(inflight) < MaxInFlight
                  /\ collection' = h.coll
                  /\ nextOid' = h.next
                  /\ inflight' = inflight \cup {[body |-> body,
                                                 InsertedID |-> h.InsertedID,
                                                 calls |-> h.calls]}
                  /\ UNCHANGED response
    /\ UNCHANGED <<created, deleted>>

PostFind(p) ==
    /\ response.method = "none"
    /\ p \in inflight
    /\ \E storeOK \in BOOLEAN :
         LET h == PostRefetch(collection, p.InsertedID, p.calls, storeOK)
         IN  /\ response' = Completed("POST", <<>>, p.body, h)
             /\ created' = created \cup {IdOf(h.resp.body.val)}
    /\ inflight' = inflight \ {p}
    /\ UNCHANGED <<collection, nextOid, deleted>>

Put(idParam, body) ==
    /\ response.method = "none"
    /\ \E storeOK \in BOOLEAN :
         LET h == PutHandler(collection, idParam, body, storeOK)
         IN  /\ response' = Completed("PUT", idParam, body, h)
             /\ collection' = h.coll
    /\ UNCHANGED <<nextOid, inflight, created, deleted>>

Delete(idParam) ==
    /\ response.method = "none"
    /\ \E storeOK \in BOOLEAN :
         LET h == DeleteHandler(collection, idParam, storeOK)
         IN  /\ response' = Completed("DELETE", idParam, BadBody, h)
             /\ collection' = h.coll
             /\ deleted' = IF h.resp.status = 200
                           THEN deleted \cup {ObjectIDFromHex(idParam).oid}
                           ELSE deleted
    /\ UNCHANGED <<nextOid, inflight, created>>

\* The server sends the handler's response to the client.
Reply ==
    /\ response.method # "none"
    /\ response' = NoResponse
    /\ UNCHANGED <<collection, nextOid, inflight, created, deleted>>

Next ==
    \/ Get
    \/ \E body \in Bodies : Post(body)
    \/ \E p \in inflight : PostFind(p)
    \/ \E idParam \in PathIds, body \in Bodies : Put(idParam, body)
    \/ \E idParam \in PathIds : Delete(idParam)
    \/ Reply

Spec == Init /\ [][Next]_vars

\* ------------------------------------------------------------ the claims
\* What a client is to see of a persisted document.
Shown(doc) ==
    [id |-> Hex(doc._id.v), name |-> doc.name, salary |-> doc.salary, age |-> doc.age]

Listing(coll) == [i \in 1 .. Len(coll) |-> Shown(coll[i])]

\* The texts of ObjectID o that a client may put in the path.
TextsOf(o) == { Hex(o), UpperHex(o) }

Persisted(coll, o) == \E i \in 1 .. Len(coll) : coll[i]._id = OidKey(o)

\* Some store call of the request was not served (store unreachable, request
\* cancelled, cursor error).
StoreFailed(r) == \E i \in 1 .. Len(r.calls) : r.calls[i].err = "error"

GoodBodies == { b \in Bodies : b.wellFormed }

BadPathIds == PathIds \ UNION { TextsOf(o) : o \in PathOids }

\* The steps the claims are about, with the request read off the response.
PutStep == response'.method = "PUT" /\ Put(response'.idParam, response'.body)

DeleteStep == response'.method = "DELETE" /\ Delete(response'.idParam)

GetStep == response'.method = "GET" /\ Get

\* Some text of ObjectID o is the path parameter of the response r.
PathIs(r, o) == r.idParam \in TextsOf(o)

\* C1: every record a create returns has a non-empty identifier that no
\* earlier create has returned and that differs from the identifier the
\* client put in the request body.
C1_FreshIdentifier ==
    [][\A p \in inflight \ inflight' :
          PostFind(p) =>
              LET id == IdOf(response'.resp.body.val)
              IN  /\ id # <<>>
                  /\ id \notin created
                  /\ id # p.body.id]_vars

\* C2: a GET whose store calls are served answers 200 with exactly the
\* persisted records (the empty array when there are none), written once;
\* and a successful insertion of {name, salary, age} adds to that listing
\* exactly one record with those values and a store-generated identifier.
C2_ListShowsPersisted ==
    [][/\ (GetStep /\ ~StoreFailed(response')) =>
              /\ response'.resp.status = 200
              /\ response'.resp.body.kind = "json"
              /\ response'.resp.body.val = Listing(collection)
              /\ response'.resp.writes = <<"JSON">>
       /\ \A p \in inflight' \ inflight :
              Post(p.body) =>
                  /\ Listing(collection') =
                        Append(Listing(collection),
                               [id |-> Hex(nextOid), name |-> p.body.name,
                                salary |-> p.body.salary, age |-> p.body.age])
                  /\ ~Persisted(collection, nextOid)]_vars

C2_Witness ==
    /\ response.method = "GET"
    /\ response.resp.status = 200
    /\ response.resp.body.kind = "json"
    /\ response.resp.body.val =
          <<[id |-> Hex(FirstOid), name |-> "Ann", salary |-> 1000, age |-> 30]>>
    /\ Len(collection) = 1

\* C3: a PUT of a persisted identifier with a well-formed body, served by
\* the store, answers 200 with the path text as id and the submitted name,
\* salary and age; and the listing then shows exactly one record with that
\* identifier, holding those values.
C3_UpdateEchoesAndPersists ==
    [][\A o \in PathOids :
          (/\ PutStep
           /\ PathIs(response', o)
           /\ response'.body.wellFormed
           /\ Persisted(collection, o)
           /\ ~StoreFailed(response')) =>
              LET body == response'.body
              IN  /\ response'.resp.status = 200
                  /\ response'.resp.body.kind = "json"
                  /\ response'.resp.body.val =
                        [id |-> response'.idParam, name |-> body.name,
                         salary |-> body.salary, age |-> body.age]
                  /\ \E i \in 1 .. Len(collection') :
                        /\ Listing(collection')[i] =
                              [id |-> Hex(o), name |-> body.name,
                               salary |-> body.salary, age |-> body.age]
                        /\ \A j \in 1 .. Len(collection') :
                              Listing(collection')[j].id = Hex(o) => j = i]_vars

C3_Witness ==
    /\ response.method = "PUT"
    /\ response.idParam = UpperHex(FirstOid)
    /\ response.resp.status = 200
    /\ response.body.name = "Bo"
    /\ \E i \in 1 .. Len(collection) :
          collection[i] = [_id |-> OidKey(FirstOid), name |-> "Bo",
                           salary |-> 2000, age |-> 41]

\* C4: a DELETE served by the store answers 200 and removes the record when
\* the identifier is persisted, and answers 404 and changes nothing when it
\* is not; no identifier is answered 200 twice.
C4_DeleteOnce ==
    [][\A o \in PathOids :
          (DeleteStep /\ PathIs(response', o)) =>
              /\ response'.resp.status = 200 => o \notin deleted
              /\ ~StoreFailed(response') =>
                    IF Persisted(collection, o)
                    THEN /\ response'.resp.status = 200
                         /\ ~Persisted(collection', o)
                         /\ Len(collection') = Len(collection) - 1
                         /\ \A i \in 1 .. Len(collection) :
                               collection[i]._id # OidKey(o) =>
                                   \E j \in 1 .. Len(collection') :
                                       collection'[j] = collection[i]
                    ELSE /\ response'.resp.status = 404
                         /\ collection' = collection]_vars

C4_Witness ==
    /\ response.method = "DELETE"
    /\ response.resp.status = 404
    /\ \E o \in deleted : PathIs(response, o)
    /\ collection # <<>>

C6_BadBody ==
    [][/\ Post(BadBody) =>
              /\ response'.resp.status = 400
              /\ collection' = collection
       /\ (PutStep /\ ~response'.body.wellFormed) =>
              /\ response'.resp.status = 400
              /\ collection' = collection]_vars

C6_Witness ==
    /\ response.method = "PUT"
    /\ ~response.body.wellFormed
    /\ response.resp.status = 400
    /\ \E o \in PathOids : PathIs(response, o) /\ Persisted(collection, o)

\* C7: a PUT or DELETE whose path identifier is no ObjectID text answers
\* 400 without having issued any store call.
C7_BadIdNoStoreCall ==
    [][((PutStep \/ DeleteStep) /\ response'.idParam \in BadPathIds) =>
          /\ response'.resp.status = 400
          /\ response'.calls = <<>>
          /\ collection' = collection]_vars

C7_Witness ==
    /\ response.method = "DELETE"
    /\ response.idParam \in BadPathIds
    /\ Len(response.idParam) # HexLen
    /\ response.resp.status = 400
    /\ collection # <<>>

\* C8: when the POST handler's insertion has succeeded, it answers 201 with
\* the record persisted under the inserted identifier, whatever ran between
\* the insertion and the re-fetch (stated here for the executions in which
\* the store serves the re-fetch).
C8_CreateReturnsPersisted ==
    [][\A p \in inflight \ inflight' :
          (PostFind(p) /\ ~StoreFailed(response')) =>
              /\ response'.resp.status = 201
              /\ \E i \in 1 .. Len(collection) :
                    /\ collection[i]._id = p.InsertedID
                    /\ response'.resp.body.val = Shown(collection[i])]_vars

\* C9: when a store call of GET fails, the handler answers 500 with the
\* error text and writes nothing else to the response.
C9_ListFailureIsTerminal ==
    [][(GetStep /\ StoreFailed(response')) =>
          /\ response'.resp.status = 500
          /\ response'.resp.body.kind = "text"
          /\ response'.resp.writes = <<"SendString">>]_vars

UniqueIds ==
    \A i, j \in 1 .. Len(collection) : collection[i]._id = collection[j]._id => i = j

\* C10: no two persisted records share an identifier; and a PUT keeps every
\* record's identifier and position, and changes only records whose
\* identifier is the one in the path.
C10_IdentifiersStable ==
    /\ []UniqueIds
    /\ [][PutStep =>
            /\ Len(collection') = Len(collection)
            /\ \A i \in 1 .. Len(collection) :
                  /\ collection'[i]._id = collection[i]._id
                  /\ collection'[i] # collection[i] =>
                        \E o \in PathOids :
                            /\ PathIs(response', o)
                            /\ collection[i]._id = OidKey(o)]_vars

C10_Witness ==
    /\ response.method = "PUT"
    /\ response.resp.status = 200
    /\ Len(collection) = 2
    /\ collection[1].name # collection[2].name

====
